---------------------------- MODULE Spec2Model ----------------------------
(***************************************************************************)
(* A model of ArgCLITool::CLILexer (src/ArgCLITool/CLILexer.hpp).          *)
(*                                                                         *)
(* The lexer is bound to a std::istream.  A character is a one-character   *)
(* string; the input and every token text are sequences of characters.     *)
(* The stream is its read position and its eofbit and failbit.  Every      *)
(* loop of the source is a recursive operator that makes one recursion     *)
(* per iteration of the loop and carries the number of iterations it may   *)
(* still make; a loop that uses them all up has not returned.              *)
(***************************************************************************)
EXTENDS Integers, Sequences, FiniteSets, TLC

VARIABLES
    input,      \* the characters of the stream buffer, fixed at construction
    stream,     \* [pos, eof, fail]: read offset, eofbit, failbit of stream_
    calls,      \* the nextToken calls that returned: [tok, from, to]
    status,     \* "ready", or "diverged" once a call did not return
    shown       \* the CLIToken::toString calls: [type, name]

vars == <<input, stream, calls, status, shown>>

----------------------------------------------------------------------------
(* Bounds of the model. *)

\* Longest input drawn from the mixed alphabet.
MaxLen == 3

\* Iterations one loop may make before the call counts as not returning.
MaxIter == 24

\* How many calls the consumer makes that return EndOfFile.
MaxEofCalls == 2

\* Longest number run drawn from the number alphabet.
MaxNumLen == 4

\* Longest string body drawn from the string alphabet.
MaxStrLen == 5

\* Longest line to which one whitespace character is added.
MaxLineLen == 3

\* How many times toString is called.
MaxShown == 2

----------------------------------------------------------------------------
\* The one element of a singleton: Only({e(x) : x \in {v}}) is e(v) with v
\* computed once, as a local variable of the source is.
Only(S) == CHOOSE x \in S : TRUE

----------------------------------------------------------------------------
(* Characters. *)

\* '\0': the value that ends `while ((c = stream_.peek()))`.
NUL == "NUL"

\* (char) traits_type::eof(): what peek() yields, narrowed to char, at end of
\* input.  It is not zero, not '\n', and in no character class.
EOFCHAR == "EOF"

\* `char c;` before the first get(c).
UNINIT == "UNINIT"

UpperCase == {"A","B","C","D","E","F","G","H","I","J","K","L","M",
              "N","O","P","Q","R","S","T","U","V","W","X","Y","Z"}

LowerCase == {"a","b","c","d","e","f","g","h","i","j","k","l","m",
              "n","o","p","q","r","s","t","u","v","w","x","y","z"}

Digits == {"0","1","2","3","4","5","6","7","8","9"}

isDigit(c) == c \in Digits

\* isAlpha with the range 'A'..'Z' left out.
isAlphaLowerOnly(c) == c \in LowerCase

isAlpha(c) == c \in LowerCase \/ c \in UpperCase

----------------------------------------------------------------------------
(* The token type. *)

TokenTypes == {"Identifier", "String", "Integer", "Float", "LeftParen",
               "RightParen", "LeftSquare", "RightSquare", "LeftCurly",
               "RightCurly", "Comma", "EndOfLine", "Comment", "EndOfFile",
               "Unknown"}

\* The strings the switch of toString returns, by enumerator.
TypeNames ==
    [Identifier  |-> <<"I", "d", "e", "n", "t", "i", "f", "i", "e", "r">>,
     String      |-> <<"S", "t", "r", "i", "n", "g">>,
     Integer     |-> <<"I", "n", "t", "e", "g", "e", "r">>,
     Float       |-> <<"F", "l", "o", "a", "t">>,
     LeftParen   |-> <<"L", "e", "f", "t", "P", "a", "r", "e", "n">>,
     RightParen  |-> <<"R", "i", "g", "h", "t", "P", "a", "r", "e", "n">>,
     LeftSquare  |-> <<"L", "e", "f", "t", "S", "q", "u", "a", "r", "e">>,
     RightSquare |-> <<"R", "i", "g", "h", "t", "S", "q", "u", "a", "r", "e">>,
     LeftCurly   |-> <<"L", "e", "f", "t", "C", "u", "r", "l", "y">>,
     RightCurly  |-> <<"R", "i", "g", "h", "t", "C", "u", "r", "l", "y">>,
     Comma       |-> <<"C", "o", "m", "m", "a">>,
     EndOfLine   |-> <<"E", "n", "d", "O", "f", "L", "i", "n", "e">>,
     Comment     |-> <<"C", "o", "m", "m", "e", "n", "t">>,
     EndOfFile   |-> <<"E", "n", "d", "O", "f", "F", "i", "l", "e">>,
     Unknown     |-> <<"U", "n", "k", "n", "o", "w", "n">>]

\* toString with the case of RightParen returning the string of LeftParen.
toStringPasted(type) ==
    IF type = "RightParen" THEN TypeNames["LeftParen"]
    ELSE IF type \in DOMAIN TypeNames THEN TypeNames[type]
    ELSE TypeNames["Unknown"]

\* CLIToken::toString: the string of the case of the enumerator, "Unknown"
\* for a value that is none.
toString(type) ==
    IF type \in DOMAIN TypeNames THEN TypeNames[type] ELSE TypeNames["Unknown"]

\* struct CLIToken: its data members.
CLITokenFields == {"type", "value"}

CLIToken(type, value) == [type |-> type, value |-> value]

\* class CLILexer: what a caller can call, and its data members.
CLILexerOperations == {"CLILexer", "nextToken"}

CLILexerFields == {"stream_"}

----------------------------------------------------------------------------
(* std::istream over the characters of `input`. *)

good(s) == ~s.eof /\ ~s.fail

\* get that moves the read position also when it reads nothing.
getStepsOnFailure(s, c) ==
    IF ~good(s) THEN [ok |-> FALSE, c |-> c, s |-> [s EXCEPT !.fail = TRUE, !.pos = @ + 1]]
    ELSE IF s.pos < Len(input)
    THEN [ok |-> TRUE, c |-> input[s.pos + 1], s |-> [s EXCEPT !.pos = @ + 1]]
    ELSE [ok |-> FALSE, c |-> c, s |-> [s EXCEPT !.eof = TRUE, !.fail = TRUE, !.pos = @ + 1]]

\* stream_.get(c): with the stream not good the sentry sets failbit; at the
\* end of the buffer eofbit and failbit are set; c is left as it was on failure.
get(s, c) ==
    IF ~good(s) THEN [ok |-> FALSE, c |-> c, s |-> [s EXCEPT !.fail = TRUE]]
    ELSE IF s.pos < Len(input)
    THEN [ok |-> TRUE, c |-> input[s.pos + 1], s |-> [s EXCEPT !.pos = @ + 1]]
    ELSE [ok |-> FALSE, c |-> c, s |-> [s EXCEPT !.eof = TRUE, !.fail = TRUE]]

\* (char) stream_.peek(): the next character, not consumed; eof() with the
\* stream not good (the sentry sets failbit) or at the end (eofbit is set).
peek(s) ==
    IF ~good(s) THEN [c |-> EOFCHAR, s |-> [s EXCEPT !.fail = TRUE]]
    ELSE IF s.pos < Len(input)
    THEN [c |-> input[s.pos + 1], s |-> s]
    ELSE [c |-> EOFCHAR, s |-> [s EXCEPT !.eof = TRUE]]

\* unget that clears eofbit and leaves the read position where it is.
ungetNoStep(s) == [s EXCEPT !.eof = FALSE]

\* stream_.unget(): clears eofbit, then steps back one character unless the
\* stream has failed.
unget(s) ==
    IF s.fail \/ s.pos = 0 THEN [s EXCEPT !.eof = FALSE, !.fail = TRUE]
    ELSE [s EXCEPT !.eof = FALSE, !.pos = @ - 1]

----------------------------------------------------------------------------
(* What a scan yields: a token and the stream after it, or no return. *)

Returned(type, value, s) ==
    [done |-> TRUE, tok |-> CLIToken(type, value), s |-> s]

NotReturned(s) ==
    [done |-> FALSE, tok |-> CLIToken("Unknown", <<>>), s |-> s]

----------------------------------------------------------------------------
(* readIdentifier *)

RECURSIVE readIdentifierLoop(_, _, _)
readIdentifierLoop(s, value, n) ==
    IF n = 0 THEN NotReturned(s)
    ELSE Only({
         IF p.c = NUL THEN Returned("Identifier", value, p.s)
         ELSE IF isAlpha(p.c) \/ isDigit(p.c) \/ p.c = "_"
         THEN Only({readIdentifierLoop(g.s, Append(value, g.c), n - 1)
                    : g \in {get(p.s, p.c)}})
         ELSE Returned("Identifier", value, p.s)
         : p \in {peek(s)}})

readIdentifier(s) == readIdentifierLoop(s, <<>>, MaxIter)

----------------------------------------------------------------------------
(* readString *)

\* The loop of readString with the closing quote looked for before the
\* escape state: an escaped quote ends the string.
RECURSIVE readStringLoopQuoteFirst(_, _, _, _)
readStringLoopQuoteFirst(s, value, escape, n) ==
    IF n = 0 THEN NotReturned(s)
    ELSE Only({
         IF ~g.ok THEN Returned("String", value, g.s)
         ELSE IF g.c = "\"" THEN Returned("String", value, g.s)
         ELSE IF escape
         THEN IF g.c = "\r" THEN readStringLoopQuoteFirst(g.s, value, TRUE, n - 1)
              ELSE IF g.c = "\n" THEN readStringLoopQuoteFirst(g.s, value, FALSE, n - 1)
              ELSE readStringLoopQuoteFirst(g.s, Append(value, g.c), FALSE, n - 1)
         ELSE IF g.c = "\\" THEN readStringLoopQuoteFirst(g.s, value, TRUE, n - 1)
         ELSE readStringLoopQuoteFirst(g.s, Append(value, g.c), FALSE, n - 1)
         : g \in {get(s, UNINIT)}})

\* The loop of readString with the escape state cleared at a carriage
\* return: the newline after it is no line continuation.
RECURSIVE readStringLoopCrClears(_, _, _, _)
readStringLoopCrClears(s, value, escape, n) ==
    IF n = 0 THEN NotReturned(s)
    ELSE Only({
         IF ~g.ok THEN Returned("String", value, g.s)
         ELSE IF escape
         THEN IF g.c = "\r" THEN readStringLoopCrClears(g.s, value, FALSE, n - 1)
              ELSE IF g.c = "\n" THEN readStringLoopCrClears(g.s, value, FALSE, n - 1)
              ELSE readStringLoopCrClears(g.s, Append(value, g.c), FALSE, n - 1)
         ELSE IF g.c = "\\" THEN readStringLoopCrClears(g.s, value, TRUE, n - 1)
         ELSE IF g.c = "\"" THEN Returned("String", value, g.s)
         ELSE readStringLoopCrClears(g.s, Append(value, g.c), FALSE, n - 1)
         : g \in {get(s, UNINIT)}})

\* The loop of readString: one get(c) per iteration, until it fails or an
\* unescaped quote is read.
RECURSIVE readStringLoop(_, _, _, _)
readStringLoop(s, value, escape, n) ==
    IF n = 0 THEN NotReturned(s)
    ELSE Only({
         IF ~g.ok THEN Returned("String", value, g.s)
         ELSE IF escape
         THEN IF g.c = "\r" THEN readStringLoop(g.s, value, TRUE, n - 1)
              ELSE IF g.c = "\n" THEN readStringLoop(g.s, value, FALSE, n - 1)
              ELSE readStringLoop(g.s, Append(value, g.c), FALSE, n - 1)
         ELSE IF g.c = "\\" THEN readStringLoop(g.s, value, TRUE, n - 1)
         ELSE IF g.c = "\"" THEN Returned("String", value, g.s)
         ELSE readStringLoop(g.s, Append(value, g.c), FALSE, n - 1)
         : g \in {get(s, UNINIT)}})

readString(s) == readStringLoop(s, <<>>, FALSE, MaxIter)

----------------------------------------------------------------------------
(* readComment *)

\* The loop of readComment with the character that ends the comment read by
\* get instead of looked at by peek.
RECURSIVE readCommentLoopEatsEnd(_, _, _)
readCommentLoopEatsEnd(s, value, n) ==
    IF n = 0 THEN NotReturned(s)
    ELSE Only({
         IF ~g.ok THEN Returned("Comment", value, g.s)
         ELSE IF g.c = NUL THEN Returned("Comment", value, g.s)
         ELSE IF g.c = "\n" THEN Returned("Comment", value, g.s)
         ELSE readCommentLoopEatsEnd(g.s, Append(value, g.c), n - 1)
         : g \in {get(s, UNINIT)}})

\* One iteration of the loop of readComment, on [done, value, s]: done is
\* set by the break, value and s are the text and the stream so far.
readCommentStep(st) ==
    IF st.done THEN st
    ELSE Only({
         IF p.c = NUL THEN [done |-> TRUE, value |-> st.value, s |-> p.s]
         ELSE IF p.c = "\n" THEN [done |-> TRUE, value |-> st.value, s |-> p.s]
         ELSE Only({[done |-> FALSE, value |-> Append(st.value, g.c), s |-> g.s]
                    : g \in {get(p.s, p.c)}})
         : p \in {peek(st.s)}})

\* n iterations: those of the first half, then those of the second half.
RECURSIVE readCommentIterate(_, _)
readCommentIterate(st, n) ==
    IF n = 0 THEN st
    ELSE IF n = 1 THEN readCommentStep(st)
    ELSE Only({readCommentIterate(half, n - (n \div 2))
               : half \in {readCommentIterate(st, n \div 2)}})

\* The loop of readComment: it has returned the comment if it broke off
\* within n iterations.
readCommentLoop(s, value, n) ==
    Only({IF st.done THEN Returned("Comment", st.value, st.s) ELSE NotReturned(st.s)
          : st \in {readCommentIterate([done |-> FALSE, value |-> value, s |-> s], n)}})

readComment(s) == readCommentLoop(s, <<>>, MaxIter)

----------------------------------------------------------------------------
(* readNumber *)

\* The loop of readNumber with no letter taken into the run.
readNumberStepNoLetters(st) ==
    IF st.done THEN st
    ELSE Only({
         IF p.c = NUL THEN [done |-> TRUE, value |-> st.value, s |-> p.s]
         ELSE IF isDigit(p.c) \/ p.c = "." \/ p.c = "-" \/ p.c = "+"
         THEN Only({[done |-> FALSE, value |-> Append(st.value, g.c), s |-> g.s]
                    : g \in {get(p.s, p.c)}})
         ELSE [done |-> TRUE, value |-> st.value, s |-> p.s]
         : p \in {peek(st.s)}})

RECURSIVE readNumberIterateNoLetters(_, _)
readNumberIterateNoLetters(st, n) ==
    IF n = 0 THEN st
    ELSE IF n = 1 THEN readNumberStepNoLetters(st)
    ELSE Only({readNumberIterateNoLetters(half, n - (n \div 2))
               : half \in {readNumberIterateNoLetters(st, n \div 2)}})

readNumberLoopNoLetters(s, value, n) ==
    readNumberIterateNoLetters([done |-> FALSE, value |-> value, s |-> s], n)

\* One iteration of the loop of readNumber, on [done, value, s]: done is
\* set by the break, value and s are the run and the stream so far.
readNumberStep(st) ==
    IF st.done THEN st
    ELSE Only({
         IF p.c = NUL THEN [done |-> TRUE, value |-> st.value, s |-> p.s]
         ELSE IF isDigit(p.c) \/ isAlpha(p.c) \/ p.c = "." \/ p.c = "-" \/ p.c = "+"
         THEN Only({[done |-> FALSE, value |-> Append(st.value, g.c), s |-> g.s]
                    : g \in {get(p.s, p.c)}})
         ELSE [done |-> TRUE, value |-> st.value, s |-> p.s]
         : p \in {peek(st.s)}})

\* n iterations: those of the first half, then those of the second half.
RECURSIVE readNumberIterate(_, _)
readNumberIterate(st, n) ==
    IF n = 0 THEN st
    ELSE IF n = 1 THEN readNumberStep(st)
    ELSE Only({readNumberIterate(half, n - (n \div 2))
               : half \in {readNumberIterate(st, n \div 2)}})

\* The loop of readNumber: done tells whether it broke off within n
\* iterations.
readNumberLoop(s, value, n) ==
    readNumberIterate([done |-> FALSE, value |-> value, s |-> s], n)

\* `iss >> x`: the outcome of one formatted extraction from a fresh
\* std::istringstream: failbit, eofbit and the value read.
Extracted(fail, eof, value) == [fail |-> fail, eof |-> eof, value |-> value]

\* The index of the last character of the run of digits of t that starts at
\* index i (i - 1 when t[i] is no digit).
RECURSIVE DigitRunEnd(_, _)
DigitRunEnd(t, i) ==
    IF i <= Len(t) /\ isDigit(t[i]) THEN DigitRunEnd(t, i + 1) ELSE i - 1

\* A digit run without its leading zeros ("0" for a run of zeros).
RECURSIVE StripZeros(_)
StripZeros(ds) ==
    IF Len(ds) > 1 /\ ds[1] = "0" THEN StripZeros(Tail(ds)) ELSE ds

DigitValue == [c \in Digits |->
    CASE c = "0" -> 0 [] c = "1" -> 1 [] c = "2" -> 2 [] c = "3" -> 3
      [] c = "4" -> 4 [] c = "5" -> 5 [] c = "6" -> 6 [] c = "7" -> 7
      [] c = "8" -> 8 [] c = "9" -> 9]

\* a < b for two digit runs without leading zeros.
RECURSIVE DigitsLess(_, _)
DigitsLess(a, b) ==
    IF Len(a) # Len(b) THEN Len(a) < Len(b)
    ELSE IF a = <<>> THEN FALSE
    ELSE IF a[1] # b[1] THEN DigitValue[a[1]] < DigitValue[b[1]]
    ELSE DigitsLess(Tail(a), Tail(b))

\* The magnitudes of INT64_MAX and INT64_MIN.
Int64MaxDigits ==
    <<"9","2","2","3","3","7","2","0","3","6","8","5","4","7","7","5","8","0","7">>

Int64MinDigits ==
    <<"9","2","2","3","3","7","2","0","3","6","8","5","4","7","7","5","8","0","8">>

\* `iss >> integer` without the range of int64_t: any run of digits is taken.
integerExtractAnyValue(t) ==
    LET signed == Len(t) > 0 /\ t[1] \in {"+", "-"}
        first  == IF signed THEN 2 ELSE 1
        last   == DigitRunEnd(t, first)
        neg    == signed /\ t[1] = "-"
        mag    == IF last >= first THEN StripZeros(SubSeq(t, first, last)) ELSE <<"0">>
    IN  Extracted(last < first,
                  last = Len(t),
                  [neg |-> neg /\ mag # <<"0">>, mag |-> mag])

\* `iss >> integer` for int64_t in base 10: an optional sign, then digits up
\* to the first character that is none.  No digit, or a value out of range,
\* sets failbit; eofbit is set when the scan ran into the end of the text.
\* The value is [neg, mag]: the sign and the magnitude's decimal digits.
integerExtract(t) ==
    LET signed == Len(t) > 0 /\ t[1] \in {"+", "-"}
        first  == IF signed THEN 2 ELSE 1
        last   == DigitRunEnd(t, first)
        neg    == signed /\ t[1] = "-"
        mag    == IF last >= first THEN StripZeros(SubSeq(t, first, last)) ELSE <<"0">>
        limit  == IF neg THEN Int64MinDigits ELSE Int64MaxDigits
    IN  Extracted(last < first \/ DigitsLess(limit, mag),
                  last = Len(t),
                  [neg |-> neg /\ mag # <<"0">>, mag |-> mag])

\* std::to_string(int64_t)
integerToString(v) == IF v.neg THEN <<"-">> \o v.mag ELSE v.mag

----------------------------------------------------------------------------
(* Exact arithmetic on digit sequences, for the binary32 value of a decimal *)
(* and its decimal expansion.  A decimal is a sequence of 0..9 and a binary *)
(* a sequence of 0..1, most significant first.                              *)

Zeros(n) == [i \in 1..n |-> 0]

IsZero(ds) == Only({\A i \in 1..Len(d) : d[i] = 0 : d \in {ds}})

\* The number of zeros ds starts with.
LeadingZeros(ds) ==
    Only({Cardinality({i \in 1..Len(d) : \A j \in 1..i : d[j] = 0}) : d \in {ds}})

\* ds \div 2 and ds % 2 of a decimal integer: a digit takes over the
\* remainder of the digit before it.
DecHalf(ds) ==
    Only({[q |-> [i \in 1..Len(d) |->
                     ((IF i > 1 THEN 10 * (d[i - 1] % 2) ELSE 0) + d[i]) \div 2],
           r |-> IF d = <<>> THEN 0 ELSE d[Len(d)] % 2] : d \in {ds}})

\* 2 * ds + carry in as many digits as ds has, and the carry out: a digit
\* carries exactly when it is 5 or more.
DecDouble(ds, carry) ==
    Only({[q |-> [i \in 1..Len(d) |->
                     (2 * d[i] + (IF i = Len(d) THEN carry
                                  ELSE IF d[i + 1] >= 5 THEN 1 ELSE 0)) % 10],
           c |-> IF d = <<>> THEN carry ELSE IF d[1] >= 5 THEN 1 ELSE 0] : d \in {ds}})

\* ds + 1 in as many digits as ds has, in base b, and the carry out: a digit
\* is carried into exactly when every digit after it is b - 1.
Inc(ds, b) ==
    Only({[q |-> [i \in 1..Len(d) |->
                     IF \A j \in (i + 1)..Len(d) : d[j] = b - 1
                     THEN (d[i] + 1) % b ELSE d[i]],
           c |-> IF \A j \in 1..Len(d) : d[j] = b - 1 THEN 1 ELSE 0] : d \in {ds}})

DecInc(ds) == Inc(ds, 10)

\* bits + 1, one digit longer when it carries out.
BinInc(bits) ==
    Only({IF i.c = 1 THEN <<1>> \o i.q ELSE i.q : i \in {Inc(bits, 2)}})

\* The loops below make n steps as two halves of n steps each, so that the
\* depth of the recursion is the logarithm of n.

\* One halving of st.ds, its remainder put before st.bits; nothing at zero.
intBitsStep(st) ==
    IF IsZero(st.ds) THEN st
    ELSE Only({[ds |-> h.q, bits |-> <<h.r>> \o st.bits] : h \in {DecHalf(st.ds)}})

RECURSIVE IntBitsLoop(_, _)
IntBitsLoop(st, n) ==
    IF n = 0 THEN st
    ELSE IF n = 1 THEN intBitsStep(st)
    ELSE Only({Only({IntBitsLoop(mid, n - k) : mid \in {IntBitsLoop(st, k)}})
               : k \in {n \div 2}})

\* The binary digits of a decimal integer (none for zero): a decimal digit
\* makes at most four of them.
IntBits(ds) ==
    Only({IntBitsLoop([ds |-> d, bits |-> <<>>], 4 * Len(d)).bits : d \in {ds}})

\* One doubling of the fraction st.rest, its carry put after st.bits.
fracBitsStep(st) ==
    Only({[rest |-> d.q, bits |-> Append(st.bits, d.c)] : d \in {DecDouble(st.rest, 0)}})

RECURSIVE FracBitsLoop(_, _)
FracBitsLoop(st, n) ==
    IF n = 0 THEN st
    ELSE IF n = 1 THEN fracBitsStep(st)
    ELSE Only({Only({FracBitsLoop(mid, n - k) : mid \in {FracBitsLoop(st, k)}})
               : k \in {n \div 2}})

\* The first k binary digits of the decimal fraction 0.fs, and what is left.
FracBits(fs, k) ==
    Only({FracBitsLoop([rest |-> f, bits |-> <<>>], k) : f \in {fs}})

\* The decimal digits of the i binary digits that st.acc stands for, and one
\* more binary digit.
bitsToDecStep(bits, st) ==
    Only({[i |-> st.i + 1, acc |-> IF d.c = 1 THEN <<1>> \o d.q ELSE d.q]
          : d \in {DecDouble(st.acc, bits[st.i + 1])}})

RECURSIVE BitsToDecLoop(_, _, _)
BitsToDecLoop(bits, st, n) ==
    IF n = 0 THEN st
    ELSE IF n = 1 THEN bitsToDecStep(bits, st)
    ELSE Only({Only({BitsToDecLoop(bits, mid, n - k) : mid \in {BitsToDecLoop(bits, st, k)}})
               : k \in {n \div 2}})

\* The decimal digits of a binary integer.
BitsToDec(bits) ==
    Only({BitsToDecLoop(b, [i |-> 0, acc |-> <<0>>], Len(b)).acc : b \in {bits}})

\* The decimal digits of the binary fraction that starts at digit i, from
\* those of the one that starts at digit i + 1.
fracToDecStep(bits, st) ==
    Only({[i |-> st.i - 1, acc |-> Tail(h.q)]
          : h \in {DecHalf(<<bits[st.i]>> \o st.acc \o <<0>>)}})

RECURSIVE FracToDecLoop(_, _, _)
FracToDecLoop(bits, st, n) ==
    IF n = 0 THEN st
    ELSE IF n = 1 THEN fracToDecStep(bits, st)
    ELSE Only({Only({FracToDecLoop(bits, mid, n - k) : mid \in {FracToDecLoop(bits, st, k)}})
               : k \in {n \div 2}})

\* The decimal digits of the binary fraction 0.bits: one per binary digit.
FracToDec(bits) ==
    Only({FracToDecLoop(b, [i |-> Len(b), acc |-> <<>>], Len(b)).acc : b \in {bits}})

----------------------------------------------------------------------------
(* IEEE 754 binary32 *)

\* Precision of float, its largest binary exponent + 1, and the position of
\* the last binary digit of its smallest subnormal.
FloatMantissaBits == 24

FloatMaxIntBits == 128

FloatMinBitPos == 149

\* More decimal digits before the point than FLT_MAX has, and more zeros after
\* the point than the smallest subnormal has: beyond them a value overflows,
\* or rounds to zero.
FloatMaxDecDigits == 39

FloatMinDecZeros == 46

\* kept + 1 when the digit after kept is 1 and either a later digit is not 0
\* (sticky) or kept is odd: round to nearest, ties to even.
roundNearestEven(kept, round, sticky) ==
    Only({IF round = 1 /\ (sticky \/ k[Len(k)] = 1) THEN BinInc(k) ELSE k
          : k \in {kept}})

\* A value with more binary digits before the point than float holds: the
\* first 24 are kept and rounded, the others become zeros.
roundInteger(ibits, fp) ==
    Only({[int |-> res \o Zeros(Len(ibits) - FloatMantissaBits), frac |-> <<>>]
          : res \in {roundNearestEven(
                        SubSeq(ibits, 1, FloatMantissaBits),
                        ibits[FloatMantissaBits + 1],
                        ~IsZero(SubSeq(ibits, FloatMantissaBits + 2, Len(ibits)))
                            \/ ~IsZero(fp))}})

\* A value whose last kept binary digit is the cut-th after the point, fb
\* being binary digits of its fraction, more than cut, and what is left.
roundFraction(ibits, fb, cut) ==
    Only({[int |-> SubSeq(res, 1, Len(res) - cut),
           frac |-> SubSeq(res, Len(res) - cut + 1, Len(res))]
          : res \in {roundNearestEven(
                        ibits \o SubSeq(fb.bits, 1, cut),
                        fb.bits[cut + 1],
                        ~IsZero(SubSeq(fb.bits, cut + 2, Len(fb.bits)))
                            \/ ~IsZero(fb.rest))}})

\* The float nearest to the value with binary digits ibits before the point
\* and decimal fraction 0.fp, as the binary digits before and after the
\* point: 24 significant digits, none beyond the 149th after the point.
roundBits(ibits, fp) ==
    IF Len(ibits) > FloatMantissaBits THEN roundInteger(ibits, fp)
    ELSE IF Len(ibits) > 0
    THEN Only({Only({roundFraction(ibits, fb, cut) : fb \in {FracBits(fp, cut + 1)}})
               : cut \in {FloatMantissaBits - Len(ibits)}})
    ELSE Only({Only({IF z + FloatMantissaBits < FloatMinBitPos
                     THEN roundFraction(ibits, fb, z + FloatMantissaBits)
                     ELSE roundFraction(ibits, fb, FloatMinBitPos)
                     : z \in {LeadingZeros(fb.bits)}})
               : fb \in {FracBits(fp, FloatMinBitPos + 1)}})

roundToFloat(ip, fp) ==
    Only({Only({[overflow |-> Len(r.int) > FloatMaxIntBits, int |-> r.int, frac |-> r.frac]
                : r \in {roundBits(ibits, fp)}})
          : ibits \in {IntBits(ip)}})

\* The decimal sig * 10^(pp - Len(sig)), pp digits before the point, as the
\* digits before and after the point.
placePoint(sig, pp) ==
    IF pp >= Len(sig) THEN [ip |-> sig \o Zeros(pp - Len(sig)), fp |-> <<>>]
    ELSE IF pp > 0 THEN [ip |-> SubSeq(sig, 1, pp), fp |-> SubSeq(sig, pp + 1, Len(sig))]
    ELSE [ip |-> <<>>, fp |-> Zeros(0 - pp) \o sig]

\* strtof of sign, mantissa digits ip.fp and decimal exponent exp: the float
\* as [neg, int, frac], or overflow (HUGE_VALF).
decimalToFloat(neg, ip, fp, exp) ==
    Only({Only({Only({IF sig = <<>> \/ pp < 0 - FloatMinDecZeros
                      THEN [overflow |-> FALSE, neg |-> neg, int |-> <<>>, frac |-> <<>>]
                      ELSE IF pp > FloatMaxDecDigits
                      THEN [overflow |-> TRUE, neg |-> neg, int |-> <<>>, frac |-> <<>>]
                      ELSE Only({[overflow |-> r.overflow, neg |-> neg,
                                  int |-> r.int, frac |-> r.frac]
                                 : r \in {Only({roundToFloat(d.ip, d.fp)
                                                : d \in {placePoint(sig, pp)}})}})
                      : pp \in {Len(ip) - lz + exp}})
                : sig \in {SubSeq(ip \o fp, lz + 1, Len(ip) + Len(fp))}})
          : lz \in {LeadingZeros(ip \o fp)}})

DigitChar == <<"0", "1", "2", "3", "4", "5", "6", "7", "8", "9">>

DigitChars(ds) == Only({[i \in 1..Len(d) |-> DigitChar[d[i] + 1]] : d \in {ds}})

DigitValues(cs) == Only({[i \in 1..Len(d) |-> DigitValue[d[i]]] : d \in {cs}})

\* Digits after the point in the "%f" rendering.
FixedPrecision == 6

\* std::to_string(float): the value as "%f", six digits after the point, the
\* exact decimal expansion ip.fp rounded to nearest, ties to even.
roundFixed(neg, ip, fp) ==
    Only({Only({Only({Only({Only({
        (IF neg THEN <<"-">> ELSE <<>>)
            \o DigitChars(IF i2.c = 1 THEN <<1>> \o i2.q ELSE i2.q)
            \o <<".">> \o DigitChars(h2.q)
        : i2 \in {IF h2.c = 1 THEN DecInc(ip) ELSE [q |-> ip, c |-> 0]}})
        : h2 \in {IF up THEN DecInc(head) ELSE [q |-> head, c |-> 0]}})
        : up \in {/\ tail # <<>>
                  /\ \/ tail[1] > 5
                     \/ /\ tail[1] = 5
                        /\ ~IsZero(Tail(tail)) \/ head[FixedPrecision] % 2 = 1}})
        : tail \in {SubSeq(fp, FixedPrecision + 1, Len(fp))}})
        : head \in {SubSeq(fp \o Zeros(FixedPrecision), 1, FixedPrecision)}})

\* floatToString as the shortest fixed rendering: the zeros that end the six
\* digits are dropped, but for one digit after the point.
floatToStringShortest(v) ==
    Only({Only({SubSeq(t, 1, Len(t) - z)
                : z \in {Cardinality({k \in 1..(FixedPrecision - 1) :
                                        \A j \in (Len(t) - k + 1)..Len(t) : t[j] = "0"})}})
          : t \in {Only({Only({Only({roundFixed(f.neg, ip, fp)
                                      : fp \in {FracToDec(f.frac)}})
                                : ip \in {BitsToDec(f.int)}})
                          : f \in {v}})}})

\* std::to_string(float)
floatToString(v) ==
    Only({Only({Only({roundFixed(f.neg, ip, fp)
                      : fp \in {FracToDec(f.frac)}})
                : ip \in {BitsToDec(f.int)}})
          : f \in {v}})

\* The decimal exponent a run of digits denotes, cut off where any mantissa
\* is out of float's range.
ExponentCap == 9999

exponentValue(ds) ==
    LET sig == StripZeros(ds)
        v   == DigitValues(sig)
    IN  IF Len(sig) > 4 THEN ExponentCap
        ELSE IF Len(sig) = 4 THEN 1000 * v[1] + 100 * v[2] + 10 * v[3] + v[4]
        ELSE IF Len(sig) = 3 THEN 100 * v[1] + 10 * v[2] + v[3]
        ELSE IF Len(sig) = 2 THEN 10 * v[1] + v[2]
        ELSE v[1]

\* `iss >> floating` for float: an optional sign, digits with at most one
\* point, and after a digit an exponent (e or E, an optional sign, digits), up
\* to the first character that fits none.  What was taken is converted by
\* strtof: failbit when there is no mantissa digit or no exponent digit after
\* the exponent mark, or on overflow; eofbit when the scan ran into the end of
\* the text.
floatExtract(t) ==
    LET signed  == Len(t) > 0 /\ t[1] \in {"+", "-"}
        neg     == signed /\ t[1] = "-"
        first   == IF signed THEN 2 ELSE 1
        intEnd  == DigitRunEnd(t, first)
        dec     == intEnd < Len(t) /\ t[intEnd + 1] = "."
        fracEnd == IF dec THEN DigitRunEnd(t, intEnd + 2) ELSE intEnd
        ip      == SubSeq(t, first, intEnd)
        fp      == IF dec THEN SubSeq(t, intEnd + 2, fracEnd) ELSE <<>>
        mant    == ip # <<>> \/ fp # <<>>
        sci     == mant /\ fracEnd < Len(t) /\ t[fracEnd + 1] \in {"e", "E"}
        esigned == sci /\ fracEnd + 1 < Len(t) /\ t[fracEnd + 2] \in {"+", "-"}
        eneg    == esigned /\ t[fracEnd + 2] = "-"
        efirst  == IF esigned THEN fracEnd + 3 ELSE fracEnd + 2
        expEnd  == IF sci THEN DigitRunEnd(t, efirst) ELSE fracEnd
        ep      == IF sci THEN SubSeq(t, efirst, expEnd) ELSE <<>>
        exp     == IF ep = <<>> THEN 0
                   ELSE IF eneg THEN 0 - exponentValue(ep) ELSE exponentValue(ep)
    IN  Only({Extracted(~mant \/ (sci /\ ep = <<>>) \/ v.overflow, expEnd = Len(t), v)
              : v \in {decimalToFloat(neg, DigitValues(ip), DigitValues(fp), exp)}})

\* numberToken without the test of has_suffix: an integer with a float
\* suffix is an Integer.
numberTokenIgnoringSuffix(value) ==
    Only({Only({Only({
        IF int.eof /\ ~int.fail
        THEN CLIToken("Integer", integerToString(int.value))
        ELSE Only({IF flt.eof /\ ~flt.fail
                   THEN CLIToken("Float", floatToString(flt.value))
                   ELSE CLIToken("Unknown", value)
                   : flt \in {floatExtract(text)}})
        : int \in {integerExtract(text)}})
        : text \in {IF has_suffix THEN SubSeq(value, 1, Len(value) - 1) ELSE value}})
        : has_suffix \in {Len(value) > 0 /\ value[Len(value)] \in {"f", "F"}}})

\* numberToken without the test of eof after the float extraction: a run
\* that begins with a float is a Float.
numberTokenPartialFloat(value) ==
    Only({Only({Only({
        IF int.eof /\ ~int.fail
        THEN IF has_suffix THEN CLIToken("Unknown", value)
             ELSE CLIToken("Integer", integerToString(int.value))
        ELSE Only({IF ~flt.fail
                   THEN CLIToken("Float", floatToString(flt.value))
                   ELSE CLIToken("Unknown", value)
                   : flt \in {floatExtract(text)}})
        : int \in {integerExtract(text)}})
        : text \in {IF has_suffix THEN SubSeq(value, 1, Len(value) - 1) ELSE value}})
        : has_suffix \in {Len(value) > 0 /\ value[Len(value)] \in {"f", "F"}}})

\* The token of a number run: what readNumber does with the characters it
\* collected.
numberToken(value) ==
    Only({Only({Only({
        IF int.eof /\ ~int.fail
        THEN IF has_suffix THEN CLIToken("Unknown", value)
             ELSE CLIToken("Integer", integerToString(int.value))
        ELSE Only({IF flt.eof /\ ~flt.fail
                   THEN CLIToken("Float", floatToString(flt.value))
                   ELSE CLIToken("Unknown", value)
                   : flt \in {floatExtract(text)}})
        : int \in {integerExtract(text)}})
        : text \in {IF has_suffix THEN SubSeq(value, 1, Len(value) - 1) ELSE value}})
        : has_suffix \in {Len(value) > 0 /\ value[Len(value)] \in {"f", "F"}}})

readNumber(s) ==
    Only({IF run.done
          THEN Only({Returned(tok.type, tok.value, run.s) : tok \in {numberToken(run.value)}})
          ELSE NotReturned(run.s)
          : run \in {readNumberLoop(s, <<>>, MaxIter)}})

----------------------------------------------------------------------------
(* nextToken *)

\* The loop of nextToken with the default case skipping the character, as
\* the whitespace case does.
RECURSIVE nextTokenLoopSkipsUnknown(_, _)
nextTokenLoopSkipsUnknown(s, n) ==
    IF n = 0 THEN NotReturned(s)
    ELSE Only({
         IF ~g.ok THEN Returned("EndOfFile", <<>>, g.s)
         ELSE IF isAlpha(g.c) \/ g.c = "_" THEN readIdentifier(unget(g.s))
         ELSE IF g.c = "\"" THEN readString(g.s)
         ELSE IF g.c \in {"-", "+", "."} \/ isDigit(g.c) THEN readNumber(unget(g.s))
         ELSE IF g.c = "(" THEN Returned("LeftParen", <<"(">>, g.s)
         ELSE IF g.c = ")" THEN Returned("RightParen", <<")">>, g.s)
         ELSE IF g.c = "[" THEN Returned("LeftSquare", <<"[">>, g.s)
         ELSE IF g.c = "]" THEN Returned("RightSquare", <<"]">>, g.s)
         ELSE IF g.c = "{" THEN Returned("LeftCurly", <<"{">>, g.s)
         ELSE IF g.c = "}" THEN Returned("RightCurly", <<"}">>, g.s)
         ELSE IF g.c = "," THEN Returned("Comma", <<",">>, g.s)
         ELSE IF g.c = "\n" THEN Returned("EndOfLine", <<>>, g.s)
         ELSE IF g.c = "#" THEN readComment(unget(g.s))
         ELSE IF g.c \in {" ", "\t", "\r"} THEN nextTokenLoopSkipsUnknown(g.s, n - 1)
         ELSE nextTokenLoopSkipsUnknown(g.s, n - 1)
         : g \in {get(s, UNINIT)}})

\* The loop of nextToken without `case '\r'`: a carriage return is no
\* whitespace.
RECURSIVE nextTokenLoopKeepsCr(_, _)
nextTokenLoopKeepsCr(s, n) ==
    IF n = 0 THEN NotReturned(s)
    ELSE Only({
         IF ~g.ok THEN Returned("EndOfFile", <<>>, g.s)
         ELSE IF isAlpha(g.c) \/ g.c = "_" THEN readIdentifier(unget(g.s))
         ELSE IF g.c = "\"" THEN readString(g.s)
         ELSE IF g.c \in {"-", "+", "."} \/ isDigit(g.c) THEN readNumber(unget(g.s))
         ELSE IF g.c = "(" THEN Returned("LeftParen", <<"(">>, g.s)
         ELSE IF g.c = ")" THEN Returned("RightParen", <<")">>, g.s)
         ELSE IF g.c = "[" THEN Returned("LeftSquare", <<"[">>, g.s)
         ELSE IF g.c = "]" THEN Returned("RightSquare", <<"]">>, g.s)
         ELSE IF g.c = "{" THEN Returned("LeftCurly", <<"{">>, g.s)
         ELSE IF g.c = "}" THEN Returned("RightCurly", <<"}">>, g.s)
         ELSE IF g.c = "," THEN Returned("Comma", <<",">>, g.s)
         ELSE IF g.c = "\n" THEN Returned("EndOfLine", <<>>, g.s)
         ELSE IF g.c = "#" THEN readComment(unget(g.s))
         ELSE IF g.c \in {" ", "\t"} THEN nextTokenLoopKeepsCr(g.s, n - 1)
         ELSE Returned("Unknown", <<g.c>>, g.s)
         : g \in {get(s, UNINIT)}})

\* The loop of nextToken: one get(c) per iteration, whitespace skipped.
RECURSIVE nextTokenLoop(_, _)
nextTokenLoop(s, n) ==
    IF n = 0 THEN NotReturned(s)
    ELSE Only({
         IF ~g.ok THEN Returned("EndOfFile", <<>>, g.s)
         ELSE IF isAlpha(g.c) \/ g.c = "_" THEN readIdentifier(unget(g.s))
         ELSE IF g.c = "\"" THEN readString(g.s)
         ELSE IF g.c \in {"-", "+", "."} \/ isDigit(g.c) THEN readNumber(unget(g.s))
         ELSE IF g.c = "(" THEN Returned("LeftParen", <<"(">>, g.s)
         ELSE IF g.c = ")" THEN Returned("RightParen", <<")">>, g.s)
         ELSE IF g.c = "[" THEN Returned("LeftSquare", <<"[">>, g.s)
         ELSE IF g.c = "]" THEN Returned("RightSquare", <<"]">>, g.s)
         ELSE IF g.c = "{" THEN Returned("LeftCurly", <<"{">>, g.s)
         ELSE IF g.c = "}" THEN Returned("RightCurly", <<"}">>, g.s)
         ELSE IF g.c = "," THEN Returned("Comma", <<",">>, g.s)
         ELSE IF g.c = "\n" THEN Returned("EndOfLine", <<>>, g.s)
         ELSE IF g.c = "#" THEN readComment(unget(g.s))
         ELSE IF g.c \in {" ", "\t", "\r"} THEN nextTokenLoop(g.s, n - 1)
         ELSE Returned("Unknown", <<g.c>>, g.s)
         : g \in {get(s, UNINIT)}})

nextToken(s) == nextTokenLoop(s, MaxIter)

----------------------------------------------------------------------------
(* The inputs. *)

\* The sequences over S of length at most n.
RECURSIVE SeqsUpTo(_, _)
SeqsUpTo(S, n) ==
    IF n = 0 THEN {<<>>}
    ELSE Only({shorter \cup {Append(w, c) : w \in shorter, c \in S}
               : shorter \in {SeqsUpTo(S, n - 1)}})

\* Characters of every class that nextToken tells apart.
MixedAlphabet == {"a", "_", "1", ".", "\"", "\n", "#", " ", "(", "$", NUL}

\* Identifiers.
IdentifierStart == {"a", "Z", "_"}

IdentifierAlphabet == {"a", "Z", "_", "7"}

\* Number runs.
NumberAlphabet == {"0", "1", ".", "-", "+", "e", "f"}

\* The characters between the quotes of a string.
StringAlphabet == {"a", "\"", "\\", "\r", "\n"}

\* f(1, "x", [2.0])
EndToEndInput ==
    <<"f", "(", "1", ",", " ", "\"", "x", "\"", ",", " ", "[", "2", ".", "0", "]", ")">>

\* # hello, and a newline
CommentInput == <<"#", " ", "h", "e", "l", "l", "o", "\n">>

\* "abc\"def"
EscapedQuoteInput == <<"\"", "a", "b", "c", "\\", "\"", "d", "e", "f", "\"">>

\* "a\ and two carriage returns, a newline, b"
ContinuationInput == <<"\"", "a", "\\", "\r", "\r", "\n", "b", "\"">>

\* One line without strings and comments.
LineAlphabet == {"a", "1", "(", " "}

\* u with the character w put in after its first p characters.
Insert(u, p, w) == SubSeq(u, 1, p) \o <<w>> \o SubSeq(u, p + 1, Len(u))

\* Two lines: a line, and the same line with one space, tab or carriage
\* return more somewhere inside it.
SpacedInputs ==
    UNION {{u \o <<"\n">> \o Insert(u, p, w) : p \in 1..(Len(u) - 1), w \in {" ", "\t", "\r"}}
           : u \in SeqsUpTo(LineAlphabet, MaxLineLen)}

NamedInputs ==
    {EndToEndInput, CommentInput, EscapedQuoteInput, ContinuationInput,
     <<"1", "2", "3">>, <<"+", "0", "0", "7">>, <<"1", "2", "3", "f">>,
     <<"1", ".", "5">>, <<"1", ".", "5", "f">>, <<"1", ".", "5", "F">>,
     <<"2", ".", "0">>, <<"1", "e", "5">>, <<"-", "1", "2", "8", ".", "2">>,
     <<"1", "-", "2">>, <<"1", "a", "b", "c">>, <<"1", ".", "2", ".", "3", ",", "x">>,
     Int64MaxDigits \o <<",">> \o Int64MinDigits,
     <<"-">> \o Int64MinDigits, <<"-">> \o Int64MinDigits \o <<"0">>,
     <<"-">> \o SubSeq(Int64MinDigits, 1, 18) \o <<"9">>,
     <<"+", "0", "0">> \o Int64MaxDigits, <<"-", "0", "0">>,
     <<"+", "a", "b", "c">>, <<"-", "x", "(">>, <<".", "e", "5", " ", "a">>}

Inputs ==
    SeqsUpTo(MixedAlphabet, MaxLen)
        \cup {<<c>> \o w : c \in IdentifierStart, w \in SeqsUpTo(IdentifierAlphabet, MaxLen)}
        \cup SeqsUpTo(NumberAlphabet, MaxNumLen)
        \cup {<<"\"">> \o w : w \in SeqsUpTo(StringAlphabet, MaxStrLen)}
        \cup SpacedInputs
        \cup NamedInputs

----------------------------------------------------------------------------
(* The lexer as a state machine: a consumer that calls nextToken again and *)
(* again on one lexer.                                                      *)

\* The calls so far that returned EndOfFile.
EofCalls == Cardinality({i \in 1..Len(calls) : calls[i].tok.type = "EndOfFile"})

\* CLILexer(std::istream& stream): the lexer is bound to a stream at its start.
Init ==
    /\ input \in Inputs
    /\ stream = [pos |-> 0, eof |-> FALSE, fail |-> FALSE]
    /\ calls = <<>>
    /\ status = "ready"
    /\ shown = <<>>

\* One call of CLILexer::nextToken by the consumer.  A call whose loop never
\* ends returns nothing, and no later call is made.
NextToken ==
    /\ status = "ready"
    /\ EofCalls < MaxEofCalls
    /\ \E r \in {nextToken(stream)} :
         /\ stream' = r.s
         /\ IF r.done
            THEN /\ calls' = Append(calls, [tok |-> r.tok, from |-> stream.pos, to |-> r.s.pos])
                 /\ status' = "ready"
            ELSE /\ calls' = calls
                 /\ status' = "diverged"
    /\ UNCHANGED <<input, shown>>

Next == NextToken

Spec == Init /\ [][Next]_vars

\* The consumer keeps calling for as long as it can.
FairSpec == Spec /\ WF_vars(NextToken)

\* A caller of the static CLIToken::toString; no lexer takes part.
ToStringInit ==
    /\ input = <<>>
    /\ stream = [pos |-> 0, eof |-> FALSE, fail |-> FALSE]
    /\ calls = <<>>
    /\ status = "ready"
    /\ shown = <<>>

\* One call of CLIToken::toString, on any enumerator.
CallToString ==
    /\ Len(shown) < MaxShown
    /\ \E type \in TokenTypes :
          shown' = Append(shown, [type |-> type, name |-> toString(type)])
    /\ UNCHANGED <<input, stream, calls, status>>

ToStringSpec == ToStringInit /\ [][CallToString]_vars

----------------------------------------------------------------------------
(* Properties. *)

\* The tokens the calls returned, in order.
Tokens == [i \in 1..Len(calls) |-> calls[i].tok]

Whitespace == {" ", "\t", "\r"}

\* The index of the first character of the token call c returned: the first
\* one after the whitespace the call skipped.
TokenStart(c) ==
    CHOOSE k \in (c.from + 1)..(c.to + 1) :
        /\ \A j \in (c.from + 1)..(k - 1) : input[j] \in Whitespace
        /\ k > c.to \/ input[k] \notin Whitespace

\* C1: every call to nextToken returns a token, also when a comment, an
\* identifier, a number run or a string is cut off by the end of the input.
C1_EveryCallReturns == status # "diverged"

\* C2: the text of a Comment token is the characters after the `#`, up to
\* the next newline and without it; the newline is not consumed, and the call
\* after the comment returns EndOfLine.  `# hello` and a newline give
\* Comment(" hello"), EndOfLine, EndOfFile.
C2_CommentText ==
    /\ \A i \in 1..Len(calls) :
         calls[i].tok.type = "Comment" =>
            \E k \in {TokenStart(calls[i])} :
               /\ input[k] = "#"
               /\ calls[i].tok.value = SubSeq(input, k + 1, calls[i].to)
               /\ \A j \in (k + 1)..calls[i].to : input[j] # "\n"
               /\ calls[i].to < Len(input) /\ input[calls[i].to + 1] = "\n"
               /\ i < Len(calls) => calls[i + 1].tok = CLIToken("EndOfLine", <<>>)
    /\ input = CommentInput /\ Len(calls) >= 3 =>
          SubSeq(Tokens, 1, 3) = <<CLIToken("Comment", <<" ", "h", "e", "l", "l", "o">>),
                                   CLIToken("EndOfLine", <<>>),
                                   CLIToken("EndOfFile", <<>>)>>

\* A letter or an underscore, then letters, digits and underscores.
IsIdentifierText(t) ==
    /\ t # <<>>
    /\ t[1] \in LowerCase \cup UpperCase \cup {"_"}
    /\ \A i \in 1..Len(t) : t[i] \in LowerCase \cup UpperCase \cup Digits \cup {"_"}

\* C3: on an input that is a letter or underscore followed by letters, digits
\* and underscores only, the first call returns Identifier with the whole
\* input as its text and the second call returns EndOfFile.
C3_IdentifierWholeInput ==
    IsIdentifierText(input) =>
        /\ status = "ready"
        /\ Len(calls) >= 1 => calls[1].tok = CLIToken("Identifier", input)
        /\ Len(calls) >= 2 => calls[2].tok = CLIToken("EndOfFile", <<>>)

C3_Witness ==
    /\ IsIdentifierText(input)
    /\ \E i, j, k \in 1..Len(input) :
          input[i] \in UpperCase /\ input[j] \in Digits /\ input[k] = "_"
    /\ Len(calls) = 2

\* A text without its sign, and without its last character.
Unsigned(t) == IF t # <<>> /\ t[1] \in {"+", "-"} THEN Tail(t) ELSE t

Unsuffixed(t) == SubSeq(t, 1, Len(t) - 1)

HasSuffix(t) == t # <<>> /\ t[Len(t)] \in {"f", "F"}

\* An optional sign and one digit or more, few enough to be far inside the
\* 64-bit range.
IsIntegerText(t) ==
    /\ Unsigned(t) # <<>>
    /\ Len(t) <= 9
    /\ \A i \in 1..Len(Unsigned(t)) : Unsigned(t)[i] \in Digits

\* The number a run of digits denotes, and the decimal digits of a number.
RECURSIVE NatValue(_)
NatValue(ds) ==
    IF ds = <<>> THEN 0
    ELSE 10 * NatValue(SubSeq(ds, 1, Len(ds) - 1)) + DigitValue[ds[Len(ds)]]

RECURSIVE NatText(_)
NatText(n) ==
    IF n < 10 THEN <<DigitChar[n + 1]>>
    ELSE Append(NatText(n \div 10), DigitChar[(n % 10) + 1])

\* The canonical decimal text of the value of an integer text.
CanonicalInteger(t) ==
    IF t[1] = "-" /\ NatValue(Unsigned(t)) > 0
    THEN <<"-">> \o NatText(NatValue(Unsigned(t)))
    ELSE NatText(NatValue(Unsigned(t)))

\* C4: a number run that is an integer gives Integer with the canonical
\* decimal text of its value (123 -> 123, +007 -> 7); an integer followed by
\* the suffix f or F gives Unknown with the run as it was (123f -> 123f).
C4_IntegerRuns ==
    Len(calls) >= 1 =>
        /\ IsIntegerText(input) =>
              calls[1].tok = CLIToken("Integer", CanonicalInteger(input))
        /\ HasSuffix(input) /\ IsIntegerText(Unsuffixed(input)) =>
              calls[1].tok = CLIToken("Unknown", input)
        /\ input = <<"1", "2", "3">> =>
              calls[1].tok = CLIToken("Integer", <<"1", "2", "3">>)
        /\ input = <<"+", "0", "0", "7">> =>
              calls[1].tok = CLIToken("Integer", <<"7">>)
        /\ input = <<"1", "2", "3", "f">> =>
              calls[1].tok = CLIToken("Unknown", <<"1", "2", "3", "f">>)

C4_Witness ==
    /\ HasSuffix(input) /\ IsIntegerText(Unsuffixed(input))
    /\ Unsuffixed(input)[1] = "-"
    /\ Len(calls) = 1
    /\ calls[1].tok.type = "Unknown"

\* The run without the float suffix, if it has one.
FloatRun(t) == IF HasSuffix(t) THEN Unsuffixed(t) ELSE t

\* An optional sign, then digits with one point among them.
IsDecimalText(t) ==
    /\ Cardinality({i \in 1..Len(Unsigned(t)) : Unsigned(t)[i] = "."}) = 1
    /\ \E i \in 1..Len(Unsigned(t)) : Unsigned(t)[i] \in Digits
    /\ \A i \in 1..Len(Unsigned(t)) : Unsigned(t)[i] \in Digits \cup {"."}

\* The digits of a decimal text before and after its point.
IntegerDigits(t) ==
    SubSeq(Unsigned(t), 1, (CHOOSE i \in 1..Len(Unsigned(t)) : Unsigned(t)[i] = ".") - 1)

FractionDigits(t) ==
    SubSeq(Unsigned(t), (CHOOSE i \in 1..Len(Unsigned(t)) : Unsigned(t)[i] = ".") + 1,
           Len(Unsigned(t)))

\* An optional minus sign, one digit or more, a point and six digits.
IsFixedText(v) ==
    /\ Len(v) >= 8
    /\ v[Len(v) - 6] = "."
    /\ \A i \in 1..Len(v) :
          i # Len(v) - 6 => v[i] \in Digits \/ (i = 1 /\ v[i] = "-" /\ Len(v) >= 9)

\* A decimal text in fixed notation with six digits after the point.
PadFixed(t) ==
    (IF t[1] = "-" THEN <<"-">> ELSE <<>>)
        \o NatText(NatValue(IntegerDigits(t)))
        \o <<".">> \o FractionDigits(t)
        \o [i \in 1..(6 - Len(FractionDigits(t))) |-> "0"]

\* Below 16 a float is within half of 0.000001 of a decimal text with at
\* most six digits after the point.
IsSmallDecimal(t) ==
    /\ Len(t) <= 9
    /\ Len(FractionDigits(t)) <= 6
    /\ NatValue(IntegerDigits(t)) < 16

IsStringInput == input # <<>> /\ input[1] = "\""

\* Character i of a string input comes after an odd number of backslashes:
\* it is escaped.
EscapedAt(i) ==
    Cardinality({k \in 2..(i - 1) : \A j \in k..(i - 1) : input[j] = "\\"}) % 2 = 1

\* No escaped carriage return or newline.
NoContinuation ==
    \A i \in 2..Len(input) : EscapedAt(i) => input[i] \notin {"\r", "\n"}

\* The index of the first quote that is not escaped (past the end if none).
ClosingQuote ==
    IF \E i \in 2..Len(input) : input[i] = "\"" /\ ~EscapedAt(i)
    THEN CHOOSE i \in 2..Len(input) :
            /\ input[i] = "\"" /\ ~EscapedAt(i)
            /\ \A j \in 2..(i - 1) : ~(input[j] = "\"" /\ ~EscapedAt(j))
    ELSE Len(input) + 1

\* The characters of the literal that are in its text: all but the
\* backslashes that escape.
Literal == {i \in 2..(ClosingQuote - 1) : EscapedAt(i) \/ input[i] # "\\"}

\* C6: in a string, a backslash before a character other than carriage
\* return and newline is dropped and the character is in the text; an escaped
\* quote does not end the string; the first quote that is not escaped ends
\* it, is consumed and is not in the text.  "abc\"def" gives abc"def.
C6_StringEscapes ==
    Len(calls) >= 1 =>
        /\ IsStringInput /\ NoContinuation =>
              /\ calls[1].tok.type = "String"
              /\ Len(calls[1].tok.value) = Cardinality(Literal)
              /\ \A i \in Literal :
                    calls[1].tok.value[Cardinality({j \in Literal : j <= i})] = input[i]
              /\ ClosingQuote <= Len(input) => calls[1].to = ClosingQuote
        /\ input = EscapedQuoteInput =>
              calls[1].tok = CLIToken("String", <<"a", "b", "c", "\"", "d", "e", "f">>)

C6_Witness ==
    /\ IsStringInput /\ NoContinuation
    /\ ClosingQuote <= Len(input)
    /\ \E i \in 2..(ClosingQuote - 1) : input[i] = "\"" /\ EscapedAt(i)
    /\ \E i \in 2..(ClosingQuote - 1) : input[i] = "\\" /\ EscapedAt(i)
    /\ Len(calls) = 1

\* The escape state in which readString reads character i of a string
\* input: set by a backslash read unescaped, kept by a carriage return read
\* escaped, cleared by any other character.
RECURSIVE EscapeBefore(_)
EscapeBefore(i) ==
    IF i <= 2 THEN FALSE
    ELSE IF EscapeBefore(i - 1) THEN input[i - 1] = "\r"
    ELSE input[i - 1] = "\\"

\* The index of the quote that ends the string (past the end if none).
StringEnd ==
    IF \E i \in 2..Len(input) : input[i] = "\"" /\ ~EscapeBefore(i)
    THEN CHOOSE i \in 2..Len(input) :
            /\ input[i] = "\"" /\ ~EscapeBefore(i)
            /\ \A j \in 2..(i - 1) : ~(input[j] = "\"" /\ ~EscapeBefore(j))
    ELSE Len(input) + 1

\* The newlines of line continuations: escaped, straight after the backslash
\* or after carriage returns that follow it.
Continuations == {i \in 2..(StringEnd - 1) : EscapeBefore(i) /\ input[i] = "\n"}

\* The characters of the string that are in its text: not the backslashes
\* that escape, and not the carriage returns and newlines that are escaped.
Contributing ==
    {i \in 2..(StringEnd - 1) :
        IF EscapeBefore(i) THEN input[i] \notin {"\r", "\n"} ELSE input[i] # "\\"}

\* C7: in a string, a backslash followed by a newline, or by carriage returns
\* and then a newline, adds nothing to the text and the string goes on; the
\* escape state lasts over the carriage returns and ends with the newline, so
\* that the character after the newline is read unescaped.
C7_LineContinuation ==
    Len(calls) >= 1 =>
        /\ IsStringInput /\ Continuations # {} =>
              /\ calls[1].tok.type = "String"
              /\ Len(calls[1].tok.value) = Cardinality(Contributing)
              /\ \A i \in Contributing :
                    calls[1].tok.value[Cardinality({j \in Contributing : j <= i})] = input[i]
              /\ \A i \in Continuations : i < Len(input) => ~EscapeBefore(i + 1)
              /\ StringEnd <= Len(input) => calls[1].to = StringEnd
        /\ input = ContinuationInput =>
              calls[1].tok = CLIToken("String", <<"a", "b">>)

C7_Witness ==
    /\ IsStringInput
    /\ \E i \in Continuations : input[i - 1] = "\r" /\ StringEnd = i + 1
    /\ Len(calls) = 1
    /\ calls[1].to = StringEnd

\* Identifier(f), LeftParen, Integer(1), Comma, String(x), Comma, the left
\* square bracket, a Float, the right square bracket, RightParen, EndOfFile.
EndToEndTokens(float) ==
    <<CLIToken("Identifier", <<"f">>), CLIToken("LeftParen", <<"(">>),
      CLIToken("Integer", <<"1">>), CLIToken("Comma", <<",">>),
      CLIToken("String", <<"x">>), CLIToken("Comma", <<",">>),
      CLIToken("LeftSquare", <<"[">>), CLIToken("Float", float),
      CLIToken("RightSquare", <<"]">>), CLIToken("RightParen", <<")">>),
      CLIToken("EndOfFile", <<>>)>>

C9_PeekTokenOffered ==
    /\ "peekToken" \in CLILexerOperations
    /\ CLILexerFields # {"stream_"}
    /\ "position" \in CLITokenFields
    /\ \A i \in 1..Len(calls) : "position" \in DOMAIN calls[i].tok

\* C10: a consumer that keeps calling nextToken receives EndOfFile after
\* finitely many calls; every token it receives before has consumed a
\* character or more, and EndOfFile, with no text, comes exactly when
\* nothing but skipped whitespace is left.
C10_ConsumerReachesEndOfFile ==
    /\ <>(EofCalls > 0)
    /\ [](\A i \in 1..Len(calls) :
            IF calls[i].tok.type = "EndOfFile"
            THEN /\ calls[i].tok.value = <<>>
                 /\ \A j \in (calls[i].from + 1)..Len(input) : input[j] \in Whitespace
            ELSE /\ calls[i].to > calls[i].from
                 /\ \E j \in (calls[i].from + 1)..Len(input) : input[j] \notin Whitespace)

\* The characters at which nextToken starts a token of a class or skips.
\* The calls of a run that is over: the consumer has seen MaxEofCalls times
\* EndOfFile, or a call did not return.  Every call of every run is among
\* them, in the last state of the run.
AllCalls ==
    IF \/ status = "diverged"
       \/ /\ Len(calls) > 0
          /\ calls[Len(calls)].tok.type = "EndOfFile"
          /\ EofCalls = MaxEofCalls
    THEN 1..Len(calls) ELSE {}

ClassifiedChars ==
    LowerCase \cup UpperCase \cup Digits
        \cup {"_", "+", "-", ".", "\"", "#", "(", ")", "[", "]", "{", "}", ",",
              "\n", " ", "\t", "\r"}

\* The calls that met a character of no class.
StrayCalls ==
    {i \in AllCalls :
        /\ TokenStart(calls[i]) <= calls[i].to
        /\ input[TokenStart(calls[i])] \notin ClassifiedChars}

\* C11: a character that starts no token class gives Unknown with that one
\* character as its text; that one character is consumed, and the next call
\* goes on at the character after it.
C11_UnknownCharacter ==
    \A i \in StrayCalls :
        \E k \in {TokenStart(calls[i])} :
            /\ calls[i].tok = CLIToken("Unknown", <<input[k]>>)
            /\ calls[i].to = k
            /\ i < Len(calls) =>
                  /\ calls[i + 1].from = k
                  /\ k < Len(input) /\ input[k + 1] \notin Whitespace =>
                        TokenStart(calls[i + 1]) = k + 1

C11_Witness ==
    \E i \in StrayCalls :
        /\ i < Len(calls)
        /\ calls[i].from < calls[i].to - 1
        /\ calls[i + 1].tok.type = "Identifier"
        /\ TokenStart(calls[i + 1]) = calls[i].to + 1

\* C12: every token but EndOfFile has a position, the offset of the source at
\* which the token began, and the positions of the tokens returned one after
\* the other increase strictly.
C12_TokensCarryPosition ==
    \A i \in 1..Len(calls) :
        calls[i].tok.type # "EndOfFile" =>
            /\ "position" \in DOMAIN calls[i].tok
            /\ calls[i].tok.position = TokenStart(calls[i]) - 1
            /\ \A j \in 1..(i - 1) : calls[j].tok.position < calls[i].tok.position

\* No two calls of toString on different kinds gave the same name.
NamesDiffer ==
    \A i, j \in 1..Len(shown) :
        shown[i].type # shown[j].type => shown[i].name # shown[j].name

\* C13 as stated: toString gives each of the 15 kinds its own name, a
\* lower-case phrase ("left paren" for the left parenthesis); no two kinds
\* share a name.
C13_LowerCaseNames ==
    /\ NamesDiffer
    /\ \A i \in 1..Len(shown) :
          /\ shown[i].name # <<>>
          /\ \A k \in 1..Len(shown[i].name) : shown[i].name[k] \in LowerCase \cup {" "}
          /\ shown[i].type = "LeftParen" =>
                shown[i].name = <<"l", "e", "f", "t", " ", "p", "a", "r", "e", "n">>

\* C13, amended: toString gives each of the 15 kinds its own name, the name
\* of its enumerator ("LeftParen" for the left parenthesis): letters only,
\* the first one upper-case; no two kinds share a name.
C13_EnumeratorNames ==
    /\ NamesDiffer
    /\ \A i \in 1..Len(shown) :
          /\ shown[i].type \in TokenTypes
          /\ shown[i].name # <<>>
          /\ shown[i].name[1] \in UpperCase
          /\ \A k \in 1..Len(shown[i].name) : shown[i].name[k] \in LowerCase \cup UpperCase
          /\ shown[i].type = "LeftParen" =>
                shown[i].name = <<"L", "e", "f", "t", "P", "a", "r", "e", "n">>
          /\ shown[i].type = "EndOfFile" =>
                shown[i].name = <<"E", "n", "d", "O", "f", "F", "i", "l", "e">>

C13_Witness ==
    /\ Len(shown) = 2
    /\ shown[1].type = "LeftParen"
    /\ shown[2].type = "RightParen"
    /\ Cardinality(TokenTypes) = 15

IdentifierChar(c) == c \in LowerCase \cup UpperCase \cup Digits \cup {"_"}

NumberRunChar(c) == c \in LowerCase \cup UpperCase \cup Digits \cup {".", "-", "+"}

CommentChar(c) == c \notin {"\n", NUL}

\* The index of the last character of the longest run of In-characters that
\* begins at index k (k - 1 for an empty run).
RunEnd(k, In(_)) ==
    CHOOSE e \in (k - 1)..Len(input) :
        /\ \A j \in k..e : In(input[j])
        /\ e = Len(input) \/ ~In(input[e + 1])

\* The calls that scanned an identifier, a number run or a comment.
IdentifierCalls ==
    {i \in AllCalls : /\ TokenStart(calls[i]) <= calls[i].to
                       /\ input[TokenStart(calls[i])] \in LowerCase \cup UpperCase \cup {"_"}}

NumberCalls ==
    {i \in AllCalls : /\ TokenStart(calls[i]) <= calls[i].to
                       /\ input[TokenStart(calls[i])] \in Digits \cup {".", "-", "+"}}

CommentCalls ==
    {i \in AllCalls : /\ TokenStart(calls[i]) <= calls[i].to
                       /\ input[TokenStart(calls[i])] = "#"}

\* The kinds of token a call can return when the first character it does not
\* skip is c.
KindsStartedBy(c) ==
    IF c \in LowerCase \cup UpperCase \cup {"_"} THEN {"Identifier"}
    ELSE IF c \in Digits \cup {".", "-", "+"} THEN {"Integer", "Float", "Unknown"}
    ELSE IF c = "\"" THEN {"String"}
    ELSE IF c = "#" THEN {"Comment"}
    ELSE IF c = "\n" THEN {"EndOfLine"}
    ELSE IF c = "(" THEN {"LeftParen"}
    ELSE IF c = ")" THEN {"RightParen"}
    ELSE IF c = "[" THEN {"LeftSquare"}
    ELSE IF c = "]" THEN {"RightSquare"}
    ELSE IF c = "{" THEN {"LeftCurly"}
    ELSE IF c = "}" THEN {"RightCurly"}
    ELSE IF c = "," THEN {"Comma"}
    ELSE {"Unknown"}

\* Call i read the run up to index e and no further, and the call after it
\* begins with the character at e + 1.
StopsAfter(i, e) ==
    /\ calls[i].to = e
    /\ i < Len(calls) =>
          /\ calls[i + 1].from = e
          /\ e < Len(input) =>
                IF input[e + 1] \in Whitespace THEN calls[i + 1].to > e
                ELSE /\ TokenStart(calls[i + 1]) = e + 1
                     /\ calls[i + 1].to > e
                     /\ calls[i + 1].tok.type \in KindsStartedBy(input[e + 1])

\* C14: the character that ends an identifier run, a number run or a comment
\* is not consumed: after the call the read position is one past the last
\* character of the run, and the next call classifies the ending character.
C14_EndingCharacterKept ==
    /\ \A i \in IdentifierCalls :
          /\ calls[i].tok.type = "Identifier"
          /\ \A e \in {RunEnd(TokenStart(calls[i]), IdentifierChar)} : StopsAfter(i, e)
    /\ \A i \in NumberCalls :
          /\ calls[i].tok.type \in {"Integer", "Float", "Unknown"}
          /\ \A e \in {RunEnd(TokenStart(calls[i]), NumberRunChar)} : StopsAfter(i, e)
    /\ \A i \in CommentCalls :
          /\ calls[i].tok.type = "Comment"
          /\ \A e \in {RunEnd(TokenStart(calls[i]), CommentChar)} : StopsAfter(i, e)

\* "# hello" and a newline: the comment, then the EndOfLine of the newline
\* that ended it, then the end of the input; the run is over.
C14_Witness ==
    /\ input = CommentInput
    /\ 1 \in CommentCalls
    /\ calls[1].tok.type = "Comment"
    /\ calls[1].to = Len(input) - 1
    /\ calls[2].tok.type = "EndOfLine"

\* The first character call i did not skip, NUL when it skipped all it read.
StartChar(i) ==
    IF TokenStart(calls[i]) <= calls[i].to THEN input[TokenStart(calls[i])] ELSE NUL

\* The consumer has read the whole input.
Finished == status = "ready" /\ Len(calls) > 0 /\ calls[Len(calls)].tok.type = "EndOfFile"

\* The index of the first newline of the input (0 when there is none), the
\* line before it and the rest after it.
FirstNewline ==
    IF \E k \in 1..Len(input) : input[k] = "\n"
    THEN CHOOSE k \in 1..Len(input) : input[k] = "\n" /\ \A j \in 1..(k - 1) : input[j] # "\n"
    ELSE 0

FirstLine == SubSeq(input, 1, FirstNewline - 1)

SecondLine == SubSeq(input, FirstNewline + 1, Len(input))

\* The calls whose token came from the first line and from the second line,
\* and the call that returned the EndOfLine between them (0: there is none).
FirstLineCalls == {i \in 1..Len(calls) : calls[i].to < FirstNewline}

NewlineCall ==
    IF \E i \in 1..Len(calls) : calls[i].to = FirstNewline /\ calls[i].tok.type = "EndOfLine"
    THEN CHOOSE i \in 1..Len(calls) : calls[i].to = FirstNewline /\ calls[i].tok.type = "EndOfLine"
    ELSE 0

SecondLineCalls ==
    {i \in 1..Len(calls) : i > NewlineCall /\ calls[i].tok.type # "EndOfFile"}

\* No token of the first line has characters on both sides of the place
\* after its first p characters.
BetweenTokens(p) ==
    \A i \in FirstLineCalls : ~(TokenStart(calls[i]) <= p /\ p < calls[i].to)

\* C15: outside strings and comments a space, a tab or a carriage return is
\* skipped and is in no token, and every newline gives exactly one EndOfLine;
\* a line gives the same tokens with one more space, tab or carriage return
\* put between two of its tokens.
C15_WhitespaceDiscarded ==
    /\ \A i \in AllCalls :
          /\ i > 1 => calls[i].from = calls[i - 1].to
          /\ StartChar(i) = NUL /\ TokenStart(calls[i]) > calls[i].to =>
                calls[i].tok = CLIToken("EndOfFile", <<>>)
          /\ calls[i].tok.type \notin {"String", "Comment"} =>
                \A k \in 1..Len(calls[i].tok.value) : calls[i].tok.value[k] \notin Whitespace \cup {"\n"}
          /\ calls[i].tok.type = "EndOfLine" => input[calls[i].to] = "\n"
          /\ StartChar(i) \notin {"\"", "#"} =>
                \A k \in (calls[i].from + 1)..calls[i].to :
                    /\ input[k] \in Whitespace => k < TokenStart(calls[i])
                    /\ input[k] = "\n" => /\ calls[i].tok = CLIToken("EndOfLine", <<>>)
                                          /\ k = calls[i].to
                                          /\ k = TokenStart(calls[i])
    /\ Finished /\ NewlineCall > 0 =>
          \A p \in 1..(Len(FirstLine) - 1) : \A w \in Whitespace :
              SecondLine = Insert(FirstLine, p, w) /\ BetweenTokens(p) =>
                  /\ Cardinality(SecondLineCalls) = Cardinality(FirstLineCalls)
                  /\ \A i \in FirstLineCalls : calls[i].tok = calls[NewlineCall + i].tok

\* a( and a newline and a, a carriage return, (: twice Identifier, LeftParen.
C15_Witness ==
    /\ input = <<"a", "(", "\n", "a", "\r", "(">>
    /\ Finished
    /\ NewlineCall = 3
    /\ BetweenTokens(1)
    /\ calls[4].tok = CLIToken("Identifier", <<"a">>)
    /\ calls[5].tok = CLIToken("LeftParen", <<"(">>)

\* The characters of the number run that call i scanned.
NumberRun(i) ==
    SubSeq(input, TokenStart(calls[i]), RunEnd(TokenStart(calls[i]), NumberRunChar))

\* Digits with at most one point among them; an optional sign and digits.
IsMantissa(m) ==
    /\ \A k \in 1..Len(m) : m[k] \in Digits \cup {"."}
    /\ \E k \in 1..Len(m) : m[k] \in Digits
    /\ Cardinality({k \in 1..Len(m) : m[k] = "."}) <= 1

IsExponent(x) ==
    /\ Unsigned(x) # <<>>
    /\ \A k \in 1..Len(Unsigned(x)) : Unsigned(x)[k] \in Digits

\* The shape of a decimal number: an optional sign, a mantissa and an
\* optional exponent.
NumberShaped(t) ==
    \/ IsMantissa(Unsigned(t))
    \/ \E k \in 1..Len(Unsigned(t)) :
          /\ Unsigned(t)[k] \in {"e", "E"}
          /\ IsMantissa(SubSeq(Unsigned(t), 1, k - 1))
          /\ IsExponent(SubSeq(Unsigned(t), k + 1, Len(Unsigned(t))))

\* Neither `iss >> integer` nor `iss >> floating` takes the whole text.
NeitherParses(t) ==
    /\ \A int \in {integerExtract(t)} : ~(int.eof /\ ~int.fail)
    /\ \A flt \in {floatExtract(t)} : ~(flt.eof /\ ~flt.fail)

\* C16: a number run that neither the integer parse nor the float parse
\* takes whole (any run that has not the shape of a number: 1-2, 1abc, 1.2.3,
\* a lone + or .) gives Unknown with the whole run as its text; the whole run
\* is consumed and the next call begins after it.
C16_UnparsedRunIsUnknown ==
    \A i \in NumberCalls : \A run \in {NumberRun(i)} :
        \/ /\ calls[i].tok = CLIToken("Unknown", run)
           /\ calls[i].to = TokenStart(calls[i]) + Len(run) - 1
           /\ i < Len(calls) =>
                 /\ calls[i + 1].from = calls[i].to
                 /\ calls[i].to < Len(input) /\ input[calls[i].to + 1] \notin Whitespace =>
                       TokenStart(calls[i + 1]) = calls[i].to + 1
        \/ /\ NumberShaped(FloatRun(run))
           /\ ~NeitherParses(FloatRun(run))

\* 1.2.3,x : Unknown with 1.2.3, then the Comma.
C16_Witness ==
    /\ input = <<"1", ".", "2", ".", "3", ",", "x">>
    /\ 1 \in NumberCalls
    /\ ~NumberShaped(NumberRun(1))
    /\ calls[1].tok = CLIToken("Unknown", <<"1", ".", "2", ".", "3">>)
    /\ calls[2].tok = CLIToken("Comma", <<",">>)

\* An optional sign and one digit or more.
IsDigitRun(t) ==
    /\ Unsigned(t) # <<>>
    /\ \A k \in 1..Len(Unsigned(t)) : Unsigned(t)[k] \in Digits

\* The value of a digit run is one of -2^63 .. 2^63 - 1.
InInt64Range(t) ==
    IF t[1] = "-" THEN ~DigitsLess(Int64MinDigits, StripZeros(Unsigned(t)))
    ELSE ~DigitsLess(Int64MaxDigits, StripZeros(Unsigned(t)))

\* A canonical decimal text: an optional minus sign, digits, no plus sign,
\* no leading zero, no minus zero.
IsCanonicalText(v) ==
    /\ v # <<>>
    /\ v[1] # "+"
    /\ IsDigitRun(v)
    /\ Unsigned(v)[1] = "0" => v = <<"0">>

\* The text v denotes the same number as the digit run t.
SameValue(v, t) ==
    /\ StripZeros(Unsigned(v)) = StripZeros(Unsigned(t))
    /\ v[1] = "-" <=> (t[1] = "-" /\ StripZeros(Unsigned(t)) # <<"0">>)

\* C17: the text of every Integer token is the canonical decimal form (an
\* optional -, no +, no leading zeros) of a value in -2^63 .. 2^63 - 1, the
\* value of the digit run it was scanned from; a digit run whose value is
\* outside that range is never returned as Integer.
C17_IntegerTextInRange ==
    /\ \A i \in AllCalls : calls[i].tok.type = "Integer" =>
          /\ i \in NumberCalls
          /\ IsCanonicalText(calls[i].tok.value)
          /\ InInt64Range(calls[i].tok.value)
          /\ IsDigitRun(NumberRun(i))
          /\ SameValue(calls[i].tok.value, NumberRun(i))
    /\ \A i \in NumberCalls :
          IsDigitRun(NumberRun(i)) /\ ~InInt64Range(NumberRun(i)) =>
              calls[i].tok.type # "Integer"

\* 2^63 - 1 is an Integer, and 2^63 after the comma is none.
C17_Witness ==
    /\ input = Int64MaxDigits \o <<",">> \o Int64MinDigits
    /\ {1, 3} \subseteq NumberCalls
    /\ calls[1].tok = CLIToken("Integer", Int64MaxDigits)
    /\ calls[3].tok.type = "Float"

\* The calls whose token begins with a +, a - or a point that a letter
\* follows.
SignLetterCalls ==
    {i \in NumberCalls : /\ StartChar(i) \in {"+", "-", "."}
                         /\ TokenStart(calls[i]) < Len(input)
                         /\ input[TokenStart(calls[i]) + 1] \in LowerCase \cup UpperCase}

\* C18 as stated: a +, - or point that a letter follows (+abc) is an Unknown
\* token of that one character, and the letters after it are returned as a
\* separate Identifier.
C18_SignAloneBeforeLetter ==
    \A i \in SignLetterCalls :
        /\ calls[i].tok = CLIToken("Unknown", <<StartChar(i)>>)
        /\ calls[i].to = TokenStart(calls[i])
        /\ i < Len(calls) =>
              /\ calls[i + 1].tok.type = "Identifier"
              /\ TokenStart(calls[i + 1]) = TokenStart(calls[i]) + 1

\* C18, amended: a +, - or point starts number scanning whatever follows
\* it; when a letter follows it (+abc) the run takes the letters in, the
\* whole run is one Unknown token, and the letters are not returned as a
\* separate Identifier.
C18_SignStartsNumberRun ==
    /\ \A i \in NumberCalls : StartChar(i) \in {"+", "-", "."} =>
          /\ calls[i].tok.type \in {"Integer", "Float", "Unknown"}
          /\ calls[i].to = RunEnd(TokenStart(calls[i]), NumberRunChar)
    /\ \A i \in SignLetterCalls :
          /\ Len(NumberRun(i)) >= 2
          /\ calls[i].tok = CLIToken("Unknown", NumberRun(i))
          /\ i < Len(calls) => calls[i + 1].from >= TokenStart(calls[i]) + 1

\* +abc : one Unknown with +abc, then the end of the input.
C18_Witness ==
    /\ input = <<"+", "a", "b", "c">>
    /\ Len(calls) = 3
    /\ 1 \in SignLetterCalls
    /\ calls[1].tok = CLIToken("Unknown", <<"+", "a", "b", "c">>)
    /\ calls[2].tok.type = "EndOfFile"

\* C19: EndOfFile is absorbing: after a call that returned EndOfFile every
\* later call returns EndOfFile with empty text and leaves the read position
\* where it was, also when the end of the input was first met by the peek of
\* an identifier or of a number run.
C19_EndOfFileAbsorbing ==
    \A i \in AllCalls : calls[i].tok.type = "EndOfFile" =>
        /\ calls[i].tok.value = <<>>
        /\ calls[i].to = Len(input)
        /\ \A j \in (i + 1)..Len(calls) :
              /\ calls[j].tok = CLIToken("EndOfFile", <<>>)
              /\ calls[j].from = calls[i].to
              /\ calls[j].to = calls[i].to
        /\ i < Len(calls) => stream.pos = calls[i].to

\* 10 : the peek of the number run met the end of the input; then EndOfFile
\* twice.
C19_Witness ==
    /\ input = <<"1", "0">>
    /\ Len(calls) = 3
    /\ calls[1].tok = CLIToken("Integer", <<"1", "0">>)
    /\ calls[1].to = Len(input)
    /\ calls[2].tok.type = "EndOfFile"
    /\ calls[3].tok.type = "EndOfFile"

============================================================================
